---- MODULE Spec2Model ----
(***************************************************************************)
(* A model of htmlcomp: the Element tree (htmlcomp/core.py), its           *)
(* normalisation, rendering and serialisation, and the stack-based Parser. *)
(*                                                                         *)
(* Text is modelled as a sequence of one-character strings, so that        *)
(* slicing, splitting and joining are computed and not assumed.  A child   *)
(* of an element is a tagged record: [kind |-> "str", val |-> text] for a  *)
(* string, [kind |-> "elem", ...] for an Element held by value, and        *)
(* [kind |-> "ref", id |-> n] for an Element held by reference in a heap.  *)
(* A Python dict is a sequence of [key, val] entries with distinct keys,   *)
(* in insertion order.                                                     *)
(***************************************************************************)
EXTENDS Integers, Sequences, FiniteSets, TLC

VARIABLES
    tree,       \* the element under construction / operated on (by value)
    pre,        \* the element as it was before the last in-place operation
    rendered,   \* the value returned by render()
    string,     \* the value returned by str()
    phase,      \* which operation has been applied to tree
    heap,       \* Element objects by identity: id -> [name, attributes, children]
    parser,     \* the Parser object: [root, stack, status]
    fed,        \* the events the tokenizer has delivered to the parser so far
    last,       \* the last operation applied to a heap object
    external,   \* attribute names as written in HTML
    internal,   \* the keys html_name_to_python makes of them
    written     \* the names python_name_to_html writes for those keys

vars == <<tree, pre, rendered, string, phase, heap, parser, fed, last,
          external, internal, written>>

(***************************************************************************)
(* Bounds of the model.                                                    *)
(***************************************************************************)
MaxNodes == 3
MaxAttrs == 1
MaxTokens == 4
MaxObjs == 3
MaxOps == 4
MaxNameLen == 3

(***************************************************************************)
(* Names and texts.                                                        *)
(***************************************************************************)
FRAGMENT == <<>>
DIV == <<"d", "i", "v">>
P == <<"p">>
IMG == <<"i", "m", "g">>
REDBOX == <<"r", "e", "d", "b", "o", "x">>
BLANK == <<"b", "l", "a", "n", "k">>

CLASS_KEY == <<"_", "c", "l", "a", "s", "s">>
ID_KEY == <<"i", "d">>
STYLE_KEY == <<"s", "t", "y", "l", "e">>

\* elements.py: the standard elements used here, the void ones among them,
\* and the fragment; RedBox is the tests' function component, Blank a
\* component whose transform returns the empty string.
ALL_ELEMENTS == {DIV, P, IMG}
VOID_ELEMENTS == {IMG}
subclasses == {FRAGMENT} \cup ALL_ELEMENTS \cup {REDBOX, BLANK}

Void(name) == name \in VOID_ELEMENTS

\* keyword.iskeyword, on the keywords that are also attribute names
iskeyword(name) == name \in {<<"c", "l", "a", "s", "s">>, <<"f", "o", "r">>,
                             <<"i", "s">>, <<"a", "s">>, <<"i", "n">>}

RECURSIVE ReplaceChar(_, _, _)
ReplaceChar(s, from, to) ==
    IF s = <<>> THEN <<>>
    ELSE <<IF Head(s) = from THEN to ELSE Head(s)>> \o ReplaceChar(Tail(s), from, to)

html_name_to_python(name) ==
    LET n == ReplaceChar(name, "-", "_")
    IN IF iskeyword(n) THEN <<"_">> \o n ELSE n

\* a conversion back that leaves the keyword prefix in place
python_name_to_html_keep_prefix(name) == ReplaceChar(name, "_", "-")

python_name_to_html(name) ==
    LET n == IF name # <<>> /\ Head(name) = "_" /\ iskeyword(Tail(name))
             THEN Tail(name) ELSE name
    IN ReplaceChar(n, "_", "-")

\* The order of characters (str comparison), on the characters of the model.
Ord(c) ==
    CASE c = " " -> 0 [] c = "-" -> 1 [] c = "_" -> 2 [] c = "a" -> 3
      [] c = "b" -> 4 [] c = "g" -> 5 [] c = "x" -> 6 [] OTHER -> 7

RECURSIVE StrLess(_, _)
StrLess(a, b) ==
    IF b = <<>> THEN FALSE
    ELSE IF a = <<>> THEN TRUE
    ELSE IF Head(a) = Head(b) THEN StrLess(Tail(a), Tail(b))
    ELSE Ord(Head(a)) < Ord(Head(b))

\* sorted(set of str)
RECURSIVE Sorted(_)
Sorted(S) ==
    IF S = {} THEN <<>>
    ELSE LET m == CHOOSE x \in S : \A y \in S \ {x} : StrLess(x, y)
         IN <<m>> \o Sorted(S \ {m})

\* sep.join(list of str)
RECURSIVE Join(_, _)
Join(sep, parts) ==
    IF parts = <<>> THEN <<>>
    ELSE IF Len(parts) = 1 THEN Head(parts)
    ELSE Head(parts) \o sep \o Join(sep, Tail(parts))

\* str.split(): the maximal runs of non-blank characters
RECURSIVE SplitFrom(_, _, _)
SplitFrom(s, word, acc) ==
    IF s = <<>> THEN (IF word = <<>> THEN acc ELSE Append(acc, word))
    ELSE IF Head(s) = " "
         THEN SplitFrom(Tail(s), <<>>, IF word = <<>> THEN acc ELSE Append(acc, word))
         ELSE SplitFrom(Tail(s), Append(word, Head(s)), acc)

Split(s) == SplitFrom(s, <<>>, <<>>)

Range(f) == {f[i] : i \in DOMAIN f}

(***************************************************************************)
(* dict operations                                                         *)
(***************************************************************************)
HasKey(d, k) == \E i \in DOMAIN d : d[i].key = k

Get(d, k) == d[CHOOSE i \in DOMAIN d : d[i].key = k].val

\* d[k] = v: an existing key keeps its position
DictSet(d, k, v) ==
    IF HasKey(d, k)
    THEN [i \in DOMAIN d |-> IF d[i].key = k THEN [key |-> k, val |-> v] ELSE d[i]]
    ELSE Append(d, [key |-> k, val |-> v])

RECURSIVE DictUpdate(_, _)
DictUpdate(d, upd) ==
    IF upd = <<>> THEN d
    ELSE DictUpdate(DictSet(d, Head(upd).key, Head(upd).val), Tail(upd))

\* del d[k]
DictDel(d, k) == SelectSeq(d, LAMBDA e : e.key # k)

\* d1 == d2: the same keys with the same values, whatever the order
DictEq(d1, d2) ==
    /\ Len(d1) = Len(d2)
    /\ \A i \in DOMAIN d1 : HasKey(d2, d1[i].key) /\ Get(d2, d1[i].key) = d1[i].val

(***************************************************************************)
(* Element, by value                                                       *)
(***************************************************************************)
Text(s) == [kind |-> "str", val |-> s]

IsElement(c) == c.kind = "elem"
IsStr(c) == c.kind = "str"
IsFragmentChild(c) == IsElement(c) /\ c.name = FRAGMENT

\* Element.default_attributes
default_attributes == <<[key |-> CLASS_KEY, val |-> {}]>>

\* Element.__call__
Call(self, children, attributes) ==
    [self EXCEPT !.children = @ \o children,
                 !.attributes = DictUpdate(@, attributes)]

\* Element.__new__ (cls is Element: the name comes first).  The names of the
\* model are the lowercase keys of the registry, which lower() leaves as
\* they are.
New(name, children, attributes) ==
    Call([kind |-> "elem", name |-> name,
          attributes |-> default_attributes, children |-> <<>>],
         children, attributes)

\* Element.copy
copy(self) == New(self.name, self.children, self.attributes)

\* Element.__contains__
Contains(self, key) == HasKey(self.attributes, key)

\* Element.__eq__
RECURSIVE ElementEq(_, _)
ElementEq(a, b) ==
    /\ a.name = b.name
    /\ DictEq(a.attributes, b.attributes)
    /\ Len(a.children) = Len(b.children)
    /\ \A i \in DOMAIN a.children :
          LET x == a.children[i]
              y == b.children[i]
          IN /\ x.kind = y.kind
             /\ IF IsElement(x) THEN ElementEq(x, y) ELSE x = y

(***************************************************************************)
(* shallow_normalize and normalize                                         *)
(***************************************************************************)
\* a flatten that splices fragments at every depth
RECURSIVE Flatten_deep(_)
Flatten_deep(children) ==
    IF children = <<>> THEN <<>>
    ELSE LET child == Head(children)
         IN (IF IsElement(child) /\ child.name = FRAGMENT
             THEN Flatten_deep(child.children) ELSE <<child>>)
            \o Flatten_deep(Tail(children))

\* the first loop of shallow_normalize
RECURSIVE Flatten(_)
Flatten(children) ==
    IF children = <<>> THEN <<>>
    ELSE LET child == Head(children)
         IN (IF IsElement(child) /\ child.name = FRAGMENT
             THEN child.children ELSE <<child>>) \o Flatten(Tail(children))

\* the second loop of shallow_normalize
RECURSIVE Consolidate(_, _)
Consolidate(normalized, flattened) ==
    IF flattened = <<>> THEN normalized
    ELSE LET child == Head(flattened)
             n == Len(normalized)
             next ==
                 IF IsStr(child)
                 THEN IF child.val = <<>> THEN normalized
                      ELSE IF n > 0 /\ IsStr(normalized[n])
                           THEN [normalized EXCEPT ![n] = Text(@.val \o child.val)]
                           ELSE Append(normalized, child)
                 ELSE Append(normalized, child)
         IN Consolidate(next, Tail(flattened))

shallow_normalize(self) ==
    [self EXCEPT !.children = Consolidate(<<>>, Flatten(self.children))]

normalize(self) ==
    shallow_normalize(
        [self EXCEPT !.children =
            [i \in DOMAIN @ |-> IF IsElement(@[i]) THEN shallow_normalize(@[i]) ELSE @[i]]])

(***************************************************************************)
(* transform and render                                                    *)
(***************************************************************************)
None == [kind |-> "none"]

\* The transform of the type registered under name: Element.transform for
\* the plain elements and the fragment, RedBox's and Blank's for theirs.
transform(name, children, attributes) ==
    IF name = REDBOX
    THEN New(DIV, children, <<[key |-> STYLE_KEY, val |-> <<"r">>]>> \o attributes)
    ELSE IF name = BLANK THEN Text(<<>>)
    ELSE None

RECURSIVE render(_)
\* a render that returns the first substitute as it is
render_once(self) ==
    LET transformed == transform(self.name, self.children, self.attributes)
    IN IF IsElement(transformed) THEN transformed
       ELSE IF transformed # None THEN New(FRAGMENT, <<transformed>>, <<>>)
       ELSE LET c == copy(self)
                kids == [i \in DOMAIN c.children |->
                            IF IsElement(c.children[i])
                            THEN render(c.children[i]) ELSE c.children[i]]
            IN shallow_normalize([c EXCEPT !.children = kids])

render(self) ==
    LET transformed == transform(self.name, self.children, self.attributes)
    IN IF IsElement(transformed) THEN render(transformed)
       ELSE IF transformed # None THEN New(FRAGMENT, <<transformed>>, <<>>)
       ELSE LET c == copy(self)
                kids == [i \in DOMAIN c.children |->
                            IF IsElement(c.children[i])
                            THEN render(c.children[i]) ELSE c.children[i]]
            IN shallow_normalize([c EXCEPT !.children = kids])

(***************************************************************************)
(* Serialisation: _add_to_builder, ElementTree's html method, __str__      *)
(***************************************************************************)
\* Element.str__class: the sorted tokens joined by blanks, None for no token
str__class(class) ==
    IF class # {} THEN Text(Join(<<" ">>, Sorted(class))) ELSE None

\* the attribute loop of _add_to_builder: the dict handed to builder.start
RECURSIVE BuilderAttributes(_, _)
BuilderAttributes(attributes, items) ==
    IF items = <<>> THEN attributes
    ELSE LET name == Head(items).key
             value == IF name = CLASS_KEY
                      THEN str__class(Head(items).val)
                      ELSE Text(Head(items).val)
         IN IF value = None
            THEN BuilderAttributes(attributes, Tail(items))
            ELSE BuilderAttributes(
                     DictSet(attributes, python_name_to_html(name), value.val),
                     Tail(items))

\* ElementTree.HTML_EMPTY, on the names of the model
HTML_EMPTY == {IMG}

\* ' key="value"' for each attribute, in the dict's order, as ElementTree
\* writes a start tag.
\* (No text of the model holds a character that ElementTree escapes.)
RECURSIVE WriteAttributes(_)
WriteAttributes(items) ==
    IF items = <<>> THEN <<>>
    ELSE <<" ">> \o Head(items).key \o <<"=", "\"">> \o Head(items).val \o <<"\"">>
         \o WriteAttributes(Tail(items))

StartTag(name, items) == <<"<">> \o name \o WriteAttributes(items) \o <<">">>
EndTag(name) == <<"<", "/">> \o name \o <<">">>

\* _add_to_builder followed by ElementTree.tostring(method="html"): the
\* start tag, the children in order, the end tag unless the tag is empty.
RECURSIVE add_to_builder(_)
RECURSIVE ChildrenMarkup(_)
ChildrenMarkup(children) ==
    IF children = <<>> THEN <<>>
    ELSE (IF IsElement(Head(children))
          THEN add_to_builder(Head(children))
          ELSE Head(children).val) \o ChildrenMarkup(Tail(children))

add_to_builder(self) ==
    StartTag(self.name, BuilderAttributes(<<>>, self.attributes))
    \o ChildrenMarkup(self.children)
    \o (IF self.name \in HTML_EMPTY THEN <<>> ELSE EndTag(self.name))

\* s[from:-drop] for from >= 0, drop > 0
Slice(s, from, drop) == SubSeq(s, from + 1, Len(s) - drop)

\* Element.__str__
Str(self) ==
    LET r == render(self)
        s == add_to_builder(r)
    IN IF r.name = FRAGMENT THEN Slice(s, 2, 3) ELSE s

(***************************************************************************)
(* Trees: construction by call/update on any node of the tree              *)
(***************************************************************************)
RECURSIVE Paths(_)
Paths(e) ==
    {<<>>} \cup UNION {{<<i>> \o p : p \in Paths(e.children[i])} :
                         i \in {j \in DOMAIN e.children : IsElement(e.children[j])}}

RECURSIVE CallAt(_, _, _, _)
CallAt(e, path, children, attributes) ==
    IF path = <<>> THEN Call(e, children, attributes)
    ELSE [e EXCEPT !.children[Head(path)] =
                        CallAt(@, Tail(path), children, attributes)]

RECURSIVE Size(_)
RECURSIVE SizeAll(_)
SizeAll(children) ==
    IF children = <<>> THEN 0
    ELSE (IF IsElement(Head(children)) THEN 1 + Size(Head(children)) ELSE 1)
         + SizeAll(Tail(children))

Size(e) == SizeAll(e.children)

\* the attributes the caller has supplied to the root
Supplied(e) ==
    Cardinality({i \in DOMAIN e.attributes :
                    e.attributes[i] \notin Range(default_attributes)})

TreeNames == {FRAGMENT, DIV, REDBOX, BLANK}
Texts == {<<>>, <<"a">>}
NewChildren == {Text(s) : s \in Texts} \cup {New(n, <<>>, <<>>) : n \in TreeNames}
NewAttributes == {[key |-> ID_KEY, val |-> <<"x">>],
                  [key |-> CLASS_KEY, val |-> {<<"b">>, <<"a">>}]}

NoElement == [kind |-> "none"]
NoParser == [root |-> 0, stack |-> <<>>, status |-> "none"]
NoOp == [op |-> "none"]

NoNames == external = <<>> /\ internal = <<>> /\ written = <<>>

Init ==
    /\ NoNames
    /\ tree \in {New(n, <<>>, <<>>) : n \in TreeNames}
    /\ pre = NoElement
    /\ rendered = NoElement
    /\ string = <<>>
    /\ phase = "build"
    /\ heap = <<>>
    /\ parser = NoParser
    /\ fed = <<>>
    /\ last = NoOp

ParserIdle == UNCHANGED <<heap, parser, fed, last, external, internal, written>>

\* node(child) for a node of the tree
AddChild ==
    /\ phase = "build"
    /\ Size(tree) < MaxNodes
    /\ \E path \in Paths(tree), child \in NewChildren :
          tree' = CallAt(tree, path, <<child>>, <<>>)
    /\ UNCHANGED <<pre, rendered, string, phase>>
    /\ ParserIdle

\* tree(**{key: value}): the caller's attributes go to the root, the
\* children are constructed with none
AddAttribute ==
    /\ phase = "build"
    /\ Supplied(tree) < MaxAttrs
    /\ \E a \in NewAttributes : tree' = Call(tree, <<>>, <<a>>)
    /\ UNCHANGED <<pre, rendered, string, phase>>
    /\ ParserIdle

ShallowNormalize ==
    /\ phase = "build"
    /\ pre' = tree
    /\ tree' = shallow_normalize(tree)
    /\ phase' = "shallow_normalize"
    /\ UNCHANGED <<rendered, string>>
    /\ ParserIdle

Normalize ==
    /\ phase = "build"
    /\ pre' = tree
    /\ tree' = normalize(tree)
    /\ phase' = "normalize"
    /\ UNCHANGED <<rendered, string>>
    /\ ParserIdle

Render ==
    /\ phase = "build"
    /\ rendered' = render(tree)
    /\ phase' = "render"
    /\ UNCHANGED <<tree, pre, string>>
    /\ ParserIdle

ToStr ==
    /\ phase = "build"
    /\ rendered' = render(tree)
    /\ string' = Str(tree)
    /\ phase' = "str"
    /\ UNCHANGED <<tree, pre>>
    /\ ParserIdle

Next ==
    \/ AddChild
    \/ AddAttribute
    \/ ShallowNormalize
    \/ Normalize
    \/ Render
    \/ ToStr

Spec == Init /\ [][Next]_vars

(***************************************************************************)
(* Properties of normalisation and rendering                               *)
(***************************************************************************)
EmptyText(c) == IsStr(c) /\ c.val = <<>>

NormalizedChildren(children) ==
    /\ \A i \in DOMAIN children :
          ~IsFragmentChild(children[i]) /\ ~EmptyText(children[i])
    /\ \A i \in 1..(Len(children) - 1) :
          ~(IsStr(children[i]) /\ IsStr(children[i + 1]))

RECURSIVE DeepNormalized(_)
DeepNormalized(e) ==
    /\ NormalizedChildren(e.children)
    /\ \A i \in DOMAIN e.children :
          IsElement(e.children[i]) => DeepNormalized(e.children[i])

\* C3: after element.normalize() no Element of the subtree, at any depth,
\* has a fragment child, an empty-string child or two adjacent string
\* children.
C3_NormalizeIsDeep == phase = "normalize" => DeepNormalized(tree)

\* the names of the elements of a tree
RECURSIVE NamesIn(_)
NamesIn(e) ==
    {e.name} \cup UNION {NamesIn(e.children[i]) :
                            i \in {j \in DOMAIN e.children : IsElement(e.children[j])}}

\* no node of the tree is one whose type's transform offers a substitute
RECURSIVE NoSubstitute(_)
NoSubstitute(e) ==
    /\ transform(e.name, e.children, e.attributes) = None
    /\ \A i \in DOMAIN e.children :
          IsElement(e.children[i]) => NoSubstitute(e.children[i])

Carries(e, attributes) ==
    \A i \in DOMAIN attributes :
        /\ HasKey(e.attributes, attributes[i].key)
        /\ Get(e.attributes, attributes[i].key) = attributes[i].val

EachRendered(children) ==
    [i \in DOMAIN children |->
        IF IsElement(children[i]) THEN render(children[i]) ELSE children[i]]

\* C5: when every transform of the tree returns an Element or None, the
\* rendered tree holds, at every depth, no node whose transform offers a
\* substitute, and a RedBox (transform: div(*children, **attributes))
\* renders to a div carrying the attributes, with each child rendered.
C5_ComponentFixpoint ==
    (phase = "render" /\ BLANK \notin NamesIn(tree)) =>
        /\ NoSubstitute(rendered)
        /\ tree.name = REDBOX =>
              /\ rendered.name = DIV
              /\ Carries(rendered, tree.attributes)
              /\ rendered.children =
                     shallow_normalize(
                         New(DIV, EachRendered(tree.children), <<>>)).children

C5_Witness ==
    /\ phase = "render"
    /\ BLANK \notin NamesIn(tree)
    /\ tree.name = REDBOX
    /\ Supplied(tree) > 0
    /\ \E i \in DOMAIN tree.children :
          /\ IsElement(tree.children[i])
          /\ tree.children[i].name = REDBOX
          /\ tree.children[i].children # <<>>

\* one level of splicing, from the right
RECURSIVE Spliced(_)
Spliced(children) ==
    IF children = <<>> THEN <<>>
    ELSE LET n == Len(children)
         IN Spliced(SubSeq(children, 1, n - 1))
            \o (IF IsFragmentChild(children[n]) THEN children[n].children
                ELSE <<children[n]>>)

NonStrings(children) == SelectSeq(children, LAMBDA c : ~IsStr(c))

\* the text before, between and after the non-string children
RECURSIVE RunsFrom(_, _, _)
RunsFrom(children, run, acc) ==
    IF children = <<>> THEN Append(acc, run)
    ELSE IF IsStr(Head(children))
         THEN RunsFrom(Tail(children), run \o Head(children).val, acc)
         ELSE RunsFrom(Tail(children), <<>>, Append(acc, run))

Runs(children) == RunsFrom(children, <<>>, <<>>)

NoEmptyNoAdjacent(children) ==
    /\ \A i \in DOMAIN children : ~EmptyText(children[i])
    /\ \A i \in 1..(Len(children) - 1) :
          ~(IsStr(children[i]) /\ IsStr(children[i + 1]))

\* C8: shallow_normalize replaces each direct fragment child by its own
\* children, one level only, drops the empty strings and joins each
\* maximal run of adjacent strings; the other children are kept as they
\* are, in order, and the element's name and attributes are untouched.
C8_ShallowNormalizeOneLevel ==
    phase = "shallow_normalize" =>
        /\ tree.name = pre.name
        /\ tree.attributes = pre.attributes
        /\ NonStrings(tree.children) = NonStrings(Spliced(pre.children))
        /\ Runs(tree.children) = Runs(Spliced(pre.children))
        /\ NoEmptyNoAdjacent(tree.children)

C8_Witness ==
    /\ phase = "shallow_normalize"
    /\ \E i \in DOMAIN pre.children :
          /\ IsFragmentChild(pre.children[i])
          /\ \E j \in DOMAIN pre.children[i].children :
                /\ IsFragmentChild(pre.children[i].children[j])
                /\ pre.children[i].children[j].children # <<>>
    /\ \E k \in DOMAIN tree.children : IsFragmentChild(tree.children[k])

\* C9: the tree render returns is normalized at every depth, the root
\* included, on every path.
C9_RenderIsNormalized == phase = "render" => DeepNormalized(rendered)

\* C10: when the rendered root is a fragment, str() is exactly the markup
\* of its children, whatever attributes the fragment carries.
C10_FragmentRootSuppressed ==
    (phase = "str" /\ rendered.name = FRAGMENT) =>
        string = ChildrenMarkup(rendered.children)

(***************************************************************************)
(* Elements by reference, and the Parser                                   *)
(***************************************************************************)
Ref(id) == [kind |-> "ref", id |-> id]
IsRef(c) == c.kind = "ref"

\* the object Element.__new__ makes for subclass(**attributes)
NewObject(name, attributes) ==
    [name |-> name,
     attributes |-> DictUpdate(default_attributes, attributes),
     children |-> <<>>]

\* the tree below a heap object, by value
RECURSIVE Deref(_, _)
Deref(h, id) ==
    [kind |-> "elem", name |-> h[id].name, attributes |-> h[id].attributes,
     children |-> [i \in DOMAIN h[id].children |->
                      IF IsRef(h[id].children[i])
                      THEN Deref(h, h[id].children[i].id)
                      ELSE h[id].children[i]]]

\* Element.parse__class
parse__class(class) == Range(Split(class))

\* the attributes of open_tag: the names converted, then the values parsed
RECURSIVE ConvertNames(_, _)
ConvertNames(d, attrs) ==
    IF attrs = <<>> THEN d
    ELSE ConvertNames(DictSet(d, html_name_to_python(Head(attrs).key), Head(attrs).val),
                      Tail(attrs))

ParseAttributes(attrs) ==
    LET d == ConvertNames(<<>>, attrs)
    IN [i \in DOMAIN d |->
           IF d[i].key = CLASS_KEY
           THEN [key |-> d[i].key, val |-> parse__class(d[i].val)]
           ELSE d[i]]

Top(p) == p.stack[Len(p.stack)]

\* Parser.reset
Reset ==
    [heap |-> <<NewObject(FRAGMENT, <<>>)>>,
     parser |-> [root |-> 1, stack |-> <<1>>, status |-> "feeding", returned |-> 0]]

\* an add that appends to the root whatever is open
add_to_root(h, p, value) == [h EXCEPT ![p.root].children = Append(@, value)]

\* Parser.add
add(h, p, value) == [h EXCEPT ![Top(p)].children = Append(@, value)]

\* the push of open_tag on every tag that is not self-closing
PushUnlessSelfClosing(tag, self_closing) == ~self_closing

\* the condition of open_tag's push
Pushes(tag, self_closing) == ~Void(tag) /\ ~self_closing

\* Parser.open_tag
open_tag(h, p, tag, attrs, self_closing) ==
    LET id == Len(h) + 1
        h1 == Append(h, NewObject(tag, ParseAttributes(attrs)))
    IN [heap |-> add(h1, p, Ref(id)),
        parser |-> IF Pushes(tag, self_closing)
                   THEN [p EXCEPT !.stack = Append(@, id)] ELSE p]

\* Parser.close_tag
close_tag(p) == [p EXCEPT !.stack = SubSeq(@, 1, Len(@) - 1)]

Raise(p) == [p EXCEPT !.status = "ParseError"]

\* an end tag that closes the open elements down to the one it names
RECURSIVE PopTo(_, _, _)
PopTo(h, p, tag) ==
    IF p.stack = <<>> THEN Raise(p)
    ELSE IF h[Top(p)].name = tag THEN close_tag(p)
    ELSE PopTo(h, close_tag(p), tag)

handle_endtag_lenient(h, p, tag) == [heap |-> h, parser |-> PopTo(h, p, tag)]

\* Parser.handle_endtag
handle_endtag(h, p, tag) ==
    LET start_tag == h[Top(p)].name
    IN [heap |-> h,
        parser |-> IF tag = start_tag THEN close_tag(p) ELSE Raise(p)]

\* Parser.handle_starttag
handle_starttag(h, p, tag, attrs) == open_tag(h, p, tag, attrs, FALSE)

\* Parser.handle_startendtag
handle_startendtag(h, p, tag, attrs) == open_tag(h, p, tag, attrs, TRUE)

\* Parser.handle_data
handle_data(h, p, data) == [heap |-> add(h, p, Text(data)), parser |-> p]

\* Parser.close
close(h, p) ==
    LET unclosed_tags == Len(p.stack) - 1
    IN [heap |-> h,
        parser |-> IF unclosed_tags > 0 THEN Raise(p)
                   ELSE [p EXCEPT !.status = "closed", !.returned = p.root]]

\* the events HTMLParser delivers
StartEvent(tag, attrs) == [type |-> "start", tag |-> tag, attrs |-> attrs]
StartEndEvent(tag, attrs) == [type |-> "startend", tag |-> tag, attrs |-> attrs]
EndEvent(tag) == [type |-> "end", tag |-> tag]
DataEvent(data) == [type |-> "data", data |-> data]
Eof == [type |-> "eof"]

\* one event handled by the parser in state st = [heap, parser]
Feed(st, e) ==
    CASE e.type = "start" -> handle_starttag(st.heap, st.parser, e.tag, e.attrs)
      [] e.type = "startend" -> handle_startendtag(st.heap, st.parser, e.tag, e.attrs)
      [] e.type = "end" -> handle_endtag(st.heap, st.parser, e.tag)
      [] e.type = "data" -> handle_data(st.heap, st.parser, e.data)
      [] OTHER -> close(st.heap, st.parser)

\* Element.parse on a whole event stream; an exception ends it
RECURSIVE Run(_, _)
Run(st, events) ==
    IF events = <<>> \/ st.parser.status # "feeding" THEN st
    ELSE Run(Feed(st, Head(events)), Tail(events))

\* the inputs of the parser
Tags == {DIV, P, IMG}
IdG == [key |-> ID_KEY, val |-> <<"g">>]
ClassAB == [key |-> <<"c", "l", "a", "s", "s">>, val |-> <<"a", " ", "b">>]
AttrLists(tag) == IF tag = DIV THEN {<<>>, <<IdG, ClassAB>>, <<ClassAB, IdG>>} ELSE {<<>>}
Datas == {<<"a">>}

ParserInit ==
    /\ NoNames
    /\ heap = Reset.heap
    /\ parser = Reset.parser
    /\ fed = <<>>
    /\ tree = NoElement
    /\ pre = NoElement
    /\ rendered = NoElement
    /\ string = <<>>
    /\ phase = "parse"
    /\ last = NoOp

Feeding == parser.status = "feeding" /\ Len(fed) < MaxTokens

TreeIdle ==
    UNCHANGED <<tree, pre, rendered, string, phase, last, external, internal, written>>

Deliver(e) ==
    /\ fed' = Append(fed, e)
    /\ heap' = Feed([heap |-> heap, parser |-> parser], e).heap
    /\ parser' = Feed([heap |-> heap, parser |-> parser], e).parser

HandleStartTag ==
    /\ Feeding
    /\ \E tag \in Tags : \E attrs \in AttrLists(tag) : Deliver(StartEvent(tag, attrs))
    /\ TreeIdle

HandleStartEndTag ==
    /\ Feeding
    /\ \E tag \in Tags : Deliver(StartEndEvent(tag, <<>>))
    /\ TreeIdle

HandleEndTag ==
    /\ Feeding
    /\ \E tag \in Tags : Deliver(EndEvent(tag))
    /\ TreeIdle

HandleData ==
    /\ Feeding
    /\ \E data \in Datas : Deliver(DataEvent(data))
    /\ TreeIdle

Close ==
    /\ parser.status = "feeding"
    /\ Deliver(Eof)
    /\ TreeIdle

\* str(Element.parse(html))
ParsedToStr ==
    /\ parser.status = "closed"
    /\ phase = "parse"
    /\ rendered' = render(Deref(heap, parser.returned))
    /\ string' = Str(Deref(heap, parser.returned))
    /\ phase' = "str"
    /\ UNCHANGED <<tree, pre, heap, parser, fed, last, external, internal, written>>

ParserNext ==
    \/ HandleStartTag
    \/ HandleStartEndTag
    \/ HandleEndTag
    \/ HandleData
    \/ Close
    \/ ParsedToStr

ParserSpec == ParserInit /\ [][ParserNext]_vars

(***************************************************************************)
(* Properties of the parser                                                *)
(***************************************************************************)
\* the text of an event in output form
EventText(e) ==
    CASE e.type = "start" -> StartTag(e.tag, e.attrs)
      [] e.type = "startend" ->
            <<"<">> \o e.tag \o WriteAttributes(e.attrs) \o <<"/", ">">>
      [] e.type = "end" -> EndTag(e.tag)
      [] e.type = "data" -> e.data
      [] OTHER -> <<>>

RECURSIVE HtmlOf(_)
HtmlOf(events) ==
    IF events = <<>> THEN <<>> ELSE EventText(Head(events)) \o HtmlOf(Tail(events))

SortedClass(val) == val # <<>> /\ val = Join(<<" ">>, Sorted(Range(Split(val))))

\* the events of a text in concrete output form: no self-closing tag, the
\* class tokens sorted
ConcreteForm(events) ==
    \A i \in DOMAIN events :
        /\ events[i].type # "startend"
        /\ events[i].type = "start" =>
              \A j \in DOMAIN events[i].attrs :
                  events[i].attrs[j].key = <<"c", "l", "a", "s", "s">> =>
                      SortedClass(events[i].attrs[j].val)

\* C1: for a text in concrete output form, str(Element.parse(html)) is
\* html itself, the attributes of each tag in the order they were written.
C1_TextRoundTrip ==
    (phase = "str" /\ parser.status = "closed" /\ ConcreteForm(fed)) =>
        string = HtmlOf(fed)

Front(q) == SubSeq(q, 1, Len(q) - 1)
Final(q) == q[Len(q)]

\* the names of the elements that the events leave open, innermost last
RECURSIVE OpenNames(_)
OpenNames(events) ==
    IF events = <<>> THEN <<>>
    ELSE LET open == OpenNames(Front(events))
             e == Final(events)
         IN IF e.type = "start" /\ e.tag \notin VOID_ELEMENTS THEN Append(open, e.tag)
            ELSE IF e.type = "end" /\ open # <<>> /\ Final(open) = e.tag THEN Front(open)
            ELSE open

Mismatched(open, e) == e.type = "end" /\ (open = <<>> \/ Final(open) # e.tag)
Unclosed(open, e) == e.type = "eof" /\ open # <<>>

StackNames == [i \in DOMAIN parser.stack |-> heap[parser.stack[i]].name]

\* C2: the parser raises ParseError exactly at an end tag whose name is
\* not that of the innermost open element (the implicit root included) or
\* at the end of the input with an element still open; a mismatching end
\* tag pops nothing; otherwise the end of the input returns the root.
C2_StrictTagMatching ==
    fed # <<>> =>
        LET e == Final(fed)
            open == OpenNames(Front(fed))
        IN /\ parser.status = "ParseError" <=> (Mismatched(open, e) \/ Unclosed(open, e))
           /\ parser.status = "ParseError" => StackNames = <<FRAGMENT>> \o open
           /\ (e.type = "eof" /\ ~Unclosed(open, e)) =>
                 /\ parser.status = "closed"
                 /\ parser.returned = parser.root
                 /\ heap[parser.returned].name = FRAGMENT

C2_Witness ==
    /\ parser.status = "ParseError"
    /\ Len(fed) = 3
    /\ Final(fed).type = "end"
    /\ Final(fed).tag \notin VOID_ELEMENTS
    /\ Len(parser.stack) = 3

\* the start and self-closing events, in order: the k-th made object k + 1
Opens(events) == SelectSeq(events, LAMBDA e : e.type \in {"start", "startend"})

IsLeafEvent(e) == e.tag \in VOID_ELEMENTS \/ e.type = "startend"

\* the events with each self-closing void tag written as a start tag
Unslashed(events) ==
    [i \in DOMAIN events |->
        IF events[i].type = "startend" /\ events[i].tag \in VOID_ELEMENTS
        THEN StartEvent(events[i].tag, events[i].attrs) ELSE events[i]]

\* C7: the element of a void start tag or of a self-closing tag is a child
\* of some element, is never on the stack and has no children; a void tag
\* in self-closing form parses to the tree of its plain form.
C7_VoidAndSelfClosingAreLeaves ==
    parser.status # "none" =>
        /\ \A k \in DOMAIN Opens(fed) :
              IsLeafEvent(Opens(fed)[k]) =>
                  /\ heap[k + 1].children = <<>>
                  /\ (k + 1) \notin Range(parser.stack)
                  /\ \E id \in DOMAIN heap : Ref(k + 1) \in Range(heap[id].children)
        /\ LET plain == Run(Reset, Unslashed(fed))
           IN /\ plain.parser.status = parser.status
              /\ ElementEq(Deref(plain.heap, plain.parser.root),
                           Deref(heap, parser.root))

C7_Witness ==
    /\ parser.status = "closed"
    /\ Len(fed) = 5
    /\ fed[1].type = "start"
    /\ fed[2] = StartEndEvent(IMG, <<>>)
    /\ fed[3].type = "data"
    /\ Len(heap[2].children) = 2

(***************************************************************************)
(* Element objects under the caller's operations                           *)
(***************************************************************************)
\* Element.copy on a heap object: Element(self.name, *children, **attributes)
CopyObject(o) == Call(NewObject(o.name, <<>>), o.children, o.attributes)

ClassA == [key |-> CLASS_KEY, val |-> {<<"a">>}]
IdX == [key |-> ID_KEY, val |-> <<"x">>]
CallChildren == {<<>>, <<Text(<<"a">>)>>}
CallAttributes == {<<>>, <<ClassA>>, <<IdX>>}
ItemKeys == {CLASS_KEY, ID_KEY}

Did(op, id, src, key, supplied) ==
    [op |-> op, id |-> id, src |-> src, key |-> key, supplied |-> supplied,
     before |-> heap, n |-> last.n + 1]

ElementInit ==
    /\ NoNames
    /\ heap = <<>>
    /\ last = [op |-> "none", n |-> 0]
    /\ parser = NoParser
    /\ fed = <<>>
    /\ tree = NoElement
    /\ pre = NoElement
    /\ rendered = NoElement
    /\ string = <<>>
    /\ phase = "objects"

Others ==
    UNCHANGED <<tree, pre, rendered, string, phase, parser, fed,
                external, internal, written>>

\* div(**attributes)
NewElement ==
    /\ last.n < MaxOps
    /\ Len(heap) < MaxObjs
    /\ \E attributes \in CallAttributes :
          /\ heap' = Append(heap, NewObject(DIV, attributes))
          /\ last' = Did("new", Len(heap) + 1, 0, <<>>, attributes)
    /\ Others

\* element(*children, **attributes)
CallElement ==
    /\ last.n < MaxOps
    /\ \E id \in DOMAIN heap, children \in CallChildren, attributes \in CallAttributes :
          /\ heap' = [heap EXCEPT ![id] = Call(@, children, attributes)]
          /\ last' = Did("call", id, 0, <<>>, attributes)
    /\ Others

\* element[key] = value
SetItem ==
    /\ last.n < MaxOps
    /\ \E id \in DOMAIN heap, a \in {ClassA, IdX} :
          /\ heap' = [heap EXCEPT ![id].attributes = DictSet(@, a.key, a.val)]
          /\ last' = Did("setitem", id, 0, a.key, <<a>>)
    /\ Others

\* del element[key]; a missing key raises KeyError and changes nothing
DelItem ==
    /\ last.n < MaxOps
    /\ \E id \in DOMAIN heap, key \in ItemKeys :
          /\ HasKey(heap[id].attributes, key)
          /\ heap' = [heap EXCEPT ![id].attributes = DictDel(@, key)]
          /\ last' = Did("delitem", id, 0, key, <<>>)
    /\ Others

\* element.copy()
CopyElement ==
    /\ last.n < MaxOps
    /\ Len(heap) < MaxObjs
    /\ \E src \in DOMAIN heap :
          /\ heap' = Append(heap, CopyObject(heap[src]))
          /\ last' = Did("copy", Len(heap) + 1, src, <<>>, <<>>)
    /\ Others

ElementNext ==
    \/ NewElement
    \/ CallElement
    \/ SetItem
    \/ DelItem
    \/ CopyElement

ElementSpec == ElementInit /\ [][ElementNext]_vars

\* C4: "_class" in element is false for an element constructed with no
\* attributes, true once the key is supplied by call/update or by item
\* assignment, and false again after del element["_class"].
C4_PresenceTracksCaller ==
    /\ (last.op = "new" /\ ~HasKey(last.supplied, CLASS_KEY)) =>
          ~Contains(heap[last.id], CLASS_KEY)
    /\ (last.op \in {"new", "call"} /\ HasKey(last.supplied, CLASS_KEY)) =>
          Contains(heap[last.id], CLASS_KEY)
    /\ (last.op = "setitem" /\ last.key = CLASS_KEY) =>
          Contains(heap[last.id], CLASS_KEY)
    /\ (last.op = "delitem" /\ last.key = CLASS_KEY) =>
          ~Contains(heap[last.id], CLASS_KEY)

\* C6: element.copy() is a distinct node with the name, exactly the
\* attribute mapping and exactly the children of the element, so that
\* copy == element; a later call/update of one node changes no other.
C6_CopyFidelity ==
    /\ last.op = "copy" =>
          /\ last.id # last.src
          /\ heap[last.id].name = heap[last.src].name
          /\ DictEq(heap[last.id].attributes, heap[last.src].attributes)
          /\ heap[last.id].children = heap[last.src].children
    /\ last.op = "call" =>
          \A j \in DOMAIN last.before : j # last.id => heap[j] = last.before[j]

(***************************************************************************)
(* Attribute names: from HTML to the attribute key and back                *)
(***************************************************************************)
NameChars == {"-", "_", "a", "s"}

NamesInit ==
    /\ external = <<<<>>, <<>>>>
    /\ internal = <<>>
    /\ written = <<>>
    /\ phase = "names"
    /\ tree = NoElement
    /\ pre = NoElement
    /\ rendered = NoElement
    /\ string = <<>>
    /\ heap = <<>>
    /\ parser = NoParser
    /\ fed = <<>>
    /\ last = NoOp

NamesOnly == UNCHANGED <<tree, pre, rendered, string, heap, parser, fed, last>>

\* one more character of an attribute name in the HTML text
WriteChar ==
    /\ phase = "names"
    /\ \E i \in DOMAIN external, c \in NameChars :
          /\ Len(external[i]) < MaxNameLen
          /\ external' = [external EXCEPT ![i] = Append(@, c)]
    /\ UNCHANGED <<internal, written, phase>>
    /\ NamesOnly

\* Parser.open_tag: the key of each attribute name
ConvertToPython ==
    /\ phase = "names"
    /\ \A i \in DOMAIN external : external[i] # <<>>
    /\ internal' = [i \in DOMAIN external |-> html_name_to_python(external[i])]
    /\ phase' = "python"
    /\ UNCHANGED <<external, written>>
    /\ NamesOnly

\* Element._add_to_builder: the name written for each key
ConvertToHtml ==
    /\ phase = "python"
    /\ written' = [i \in DOMAIN internal |-> python_name_to_html(internal[i])]
    /\ phase' = "html"
    /\ UNCHANGED <<external, internal>>
    /\ NamesOnly

NamesNext ==
    \/ WriteChar
    \/ ConvertToPython
    \/ ConvertToHtml

NamesSpec == NamesInit /\ [][NamesNext]_vars

\* the claim as stated: every name comes back as it was written, and two
\* different names never share a key
C11_EveryNameReversible ==
    phase = "html" =>
        /\ \A i \in DOMAIN external : written[i] = external[i]
        /\ external[1] # external[2] => internal[1] # internal[2]

\* a name with no underscore that is not a hyphen followed by a keyword
Unambiguous(name) ==
    /\ "_" \notin Range(name)
    /\ ~(name # <<>> /\ Head(name) = "-" /\ iskeyword(Tail(name)))

\* C11: for every HTML attribute name with no underscore that is not a
\* hyphen followed by a reserved identifier (hyphens and reserved
\* identifiers included), python_name_to_html(html_name_to_python(n)) = n,
\* and two different such names never map to the same key.
C11_NameRoundTrip ==
    phase = "html" =>
        /\ \A i \in DOMAIN external :
              Unambiguous(external[i]) => written[i] = external[i]
        /\ (Unambiguous(external[1]) /\ Unambiguous(external[2])
              /\ external[1] # external[2]) => internal[1] # internal[2]

C11_Witness ==
    /\ phase = "html"
    /\ external = <<<<"a", "s">>, <<"a", "-", "s">>>>
    /\ internal = <<<<"_", "a", "s">>, <<"a", "_", "s">>>>

(***************************************************************************)
(* The open-element stack                                                  *)
(***************************************************************************)
LastChild(o) == o.children[Len(o.children)]

\* the last event's content is the last child of the innermost open
\* element, or that element itself
AppendedInnermost ==
    (parser.status = "feeding" /\ fed # <<>>) =>
        LET e == Final(fed)
            top == heap[Top(parser)]
        IN /\ e.type = "data" => LastChild(top) = Text(e.data)
           /\ (e.type \in {"start", "startend"} /\ IsLeafEvent(e)) =>
                 LastChild(top) = Ref(Len(heap))
           /\ (e.type = "start" /\ ~IsLeafEvent(e)) => Top(parser) = Len(heap)

\* C12: while the parser has not raised, the stack is not empty, its
\* bottom is the implicit root fragment, it holds no element of a void
\* type, and each entry above the bottom is the last child of the entry
\* below it, so that new content goes to the innermost open element.
C12_StackInvariant ==
    parser.status \in {"feeding", "closed"} =>
        /\ parser.stack # <<>>
        /\ parser.stack[1] = parser.root
        /\ heap[parser.root].name = FRAGMENT
        /\ \A i \in DOMAIN parser.stack : heap[parser.stack[i]].name \notin VOID_ELEMENTS
        /\ \A i \in 1..(Len(parser.stack) - 1) :
              /\ heap[parser.stack[i]].children # <<>>
              /\ LastChild(heap[parser.stack[i]]) = Ref(parser.stack[i + 1])
        /\ AppendedInnermost

C12_Witness ==
    /\ parser.status = "feeding"
    /\ Len(parser.stack) = 3
    /\ Len(fed) = 4
    /\ fed[3].type = "data"
    /\ Final(fed).type = "start"
    /\ Final(fed).tag \in VOID_ELEMENTS
    /\ Len(heap[Top(parser)].children) = 2

====
